---------------------------- MODULE Spec2Model ----------------------------
(***************************************************************************)
(* A model of the polite seeder of src/ingest/fetch_seed.py (main and its  *)
(* helpers) and of the paginated loop of src/ingest/usaspending_fetch.py.  *)
(*                                                                         *)
(* Time is wall-clock time in whole seconds, the granularity of the        *)
(* timestamps the code puts into file names.  The outside world (robots    *)
(* files, servers, the two storage backends) answers nondeterministically  *)
(* within the sets below.                                                  *)
(***************************************************************************)
EXTENDS Integers, Sequences, FiniteSets, TLC

(***************************************************************************)
(* Bounds of the model.                                                    *)
(***************************************************************************)
MaxRows == 2          \* rows of the manifest
MaxFaults == 1        \* failures (transport, robots, storage) the world injects per run
MaxDuration == 1      \* seconds a content request may take
MaxJitter == 1        \* random.uniform(0, 1), in whole seconds
MaxPages == 3         \* non-empty pages the paginated API stub may hold

(***************************************************************************)
(* Program constants.                                                      *)
(***************************************************************************)
DEFAULT_CRAWL_DELAY == 5
StartTime == 1

(***************************************************************************)
(* Optional values: <<>> is None, <<v>> is v.                              *)
(***************************************************************************)
None == <<>>
Some(v) == <<v>>
IsSome(o) == Len(o) = 1
Val(o) == o[1]

(***************************************************************************)
(* Strings the code inspects are sequences of one-character strings.       *)
(***************************************************************************)
Digits == {"0", "1", "2", "3", "4", "5", "6", "7", "8", "9"}
AlnumChars == Digits \cup {"a", "b"}

DigitValue(c) ==
    CASE c = "0" -> 0 [] c = "1" -> 1 [] c = "2" -> 2 [] c = "3" -> 3
      [] c = "4" -> 4 [] c = "5" -> 5 [] c = "6" -> 6 [] c = "7" -> 7
      [] c = "8" -> 8 [] c = "9" -> 9

\* int(s) of a header string: defined on non-empty digit strings, else ValueError
IsIntString(s) == Len(s) > 0 /\ \A k \in 1..Len(s) : s[k] \in Digits

RECURSIVE IntOfDigits(_)
IntOfDigits(s) ==
    IF Len(s) = 0 THEN 0
    ELSE 10 * IntOfDigits(SubSeq(s, 1, Len(s) - 1)) + DigitValue(s[Len(s)])

RECURSIVE LStrip(_, _)
LStrip(s, chars) ==
    IF Len(s) > 0 /\ s[1] \in chars THEN LStrip(Tail(s), chars) ELSE s

RECURSIVE RStrip(_, _)
RStrip(s, chars) ==
    IF Len(s) > 0 /\ s[Len(s)] \in chars
    THEN RStrip(SubSeq(s, 1, Len(s) - 1), chars) ELSE s

\* build_output_paths: keep alphanumerics, "-" and "_", strip "_-", add the UTC date
SafeName(source_name) ==
    LET mapped == [k \in 1..Len(source_name) |->
                     IF source_name[k] \in AlnumChars \cup {"-", "_"}
                     THEN source_name[k] ELSE "_"]
    IN  RStrip(LStrip(mapped, {"_", "-"}), {"_", "-"})

DatePart(t) == t \div 86400

build_output_paths(source_name, t) ==
    [root |-> "anduril", safe_name |-> SafeName(source_name), date_part |-> DatePart(t)]

\* sha256_hex, on the bodies the servers of the model return
sha256_hex(b) ==
    CASE b = "pdf-bytes" -> "sha-9f2c"
      [] b = "html-bytes" -> "sha-41aa"
      [] b = "json-bytes" -> "sha-c07e"
      [] b = "busy-bytes" -> "sha-5d13"
      [] OTHER -> "sha-e3b0"

(***************************************************************************)
(* The manifest.  A URL is its domain and the last segment of its path     *)
(* (stem and extension); api_params is the endpoint it names and the keys  *)
(* of its key=value pairs.                                                 *)
(***************************************************************************)
NoUrl == [domain |-> "", stem |-> "", ext |-> ""]

RowGeneric ==
    [source_name |-> <<"a">>,
     url |-> [domain |-> "d1.example", stem |-> "report", ext |-> ".pdf"],
     api_endpoint |-> "", api_keys |-> {}]
RowUsaspending ==
    [source_name |-> <<"a">>,
     url |-> [domain |-> "d1.example", stem |-> "awards", ext |-> ""],
     api_endpoint |-> "usaspending", api_keys |-> {"recipient_id"}]
RowUsaspendingNoId ==
    [source_name |-> <<"a", " ">>,
     url |-> [domain |-> "d2.example", stem |-> "report", ext |-> ".pdf"],
     api_endpoint |-> "usaspending", api_keys |-> {}]
RowSam ==
    [source_name |-> <<"b">>,
     url |-> NoUrl,
     api_endpoint |-> "sam", api_keys |-> {"query"}]

RowKinds == {RowGeneric, RowUsaspending, RowUsaspendingNoId, RowSam}

Manifests == UNION {[1..n -> RowKinds] : n \in 1..MaxRows}

SiteDomains == {"d1.example", "d2.example"}
UsaspendingDomain == "api.usaspending.gov"
SamDomain == "api.sam.gov"

get_domain(url) == url.domain

\* urlparse(url).path last segment, "index" when empty, ".html" when it has no dot
Basename(url) ==
    LET stem == IF url.stem = "" /\ url.ext = "" THEN "index" ELSE url.stem
    IN  [stem |-> stem, ext |-> IF url.ext = "" THEN ".html" ELSE url.ext]

(***************************************************************************)
(* robots.txt as the world holds it for a domain: whether it allows the    *)
(* crawler on the domain's URLs, and the crawl delays it declares for the  *)
(* crawler's agent and for "*".                                            *)
(***************************************************************************)
RobotsAllowAll == [allow |-> TRUE, cd_agent |-> None, cd_star |-> None]
RobotsFiles ==
    {RobotsAllowAll,
     [allow |-> TRUE, cd_agent |-> Some(2), cd_star |-> Some(1)],
     [allow |-> TRUE, cd_agent |-> None, cd_star |-> Some(1)],
     [allow |-> FALSE, cd_agent |-> None, cd_star |-> None]}

can_fetchStrict(rp) == IF IsSome(rp) THEN Val(rp).allow ELSE FALSE

\* rp.can_fetch(USER_AGENT, url) guarded by "if rp": no parser allows everything
can_fetch(rp) == IF IsSome(rp) THEN Val(rp).allow ELSE TRUE

(***************************************************************************)
(* What a server may answer.                                               *)
(***************************************************************************)
Responses ==
    {[status_code |-> 200, content_type |-> "application/pdf", retry_after |-> None,
      content |-> "pdf-bytes"],
     [status_code |-> 429, content_type |-> "text/html", retry_after |-> Some(<<"3">>),
      content |-> "busy-bytes"],
     [status_code |-> 429, content_type |-> "application/json", retry_after |-> None,
      content |-> "json-bytes"],
     [status_code |-> 429, content_type |-> "text/html",
      retry_after |-> Some(<<"W", "e", "d">>), content |-> "busy-bytes"]}

NoResponse ==
    [status_code |-> 0, content_type |-> "", retry_after |-> None, content |-> ""]

\* lines 369-375: the extension from Content-Type, else the URL's, else ".bin"
ExtFor(content_type, basename) ==
    IF content_type = "application/pdf" THEN ".pdf"
    ELSE IF content_type \in {"text/html", "text/plain"} THEN ".html"
    ELSE IF basename.ext # "" THEN basename.ext ELSE ".bin"


(***************************************************************************)
(* State of fetch_seed.main.                                               *)
(***************************************************************************)
VARIABLES
    rows,                 \* load_manifest(csv_path)
    dry_run, local_only,  \* the flags of main
    sam_key,              \* os.environ.get("SAM_API_KEY") is set
    robots_txt,           \* the world: each site's robots file
    adls_writer,          \* main's adls_writer is not None
    pc, i,                \* position in main, index of the current row
    now,                  \* time.time() / datetime.utcnow(), in seconds
    domain_last_request, domain_crawl_delay,
    remote, local,        \* the two stores: path -> what is stored there
    outdir, rp, resp,     \* locals of the current row
    artifact, todo, handler, after,   \* the commit in progress
    reqs,                 \* history: every outbound request, in order
    writes,               \* history: every write attempt, in order
    overwritten,          \* history: stored files a later write replaced
    faults                \* failures injected so far

(***************************************************************************)
(* State of usaspending_fetch.fetch_usaspending_for_recipient.             *)
(***************************************************************************)
VARIABLES
    api_pages,            \* the stub: pages 1..api_pages hold results, later ones none
    api_bad_page,         \* the stub answers this page with api_bad_status (0: never)
    api_bad_status,
    ppc,                  \* position in the loop
    page,                 \* params["page"]
    pnow,                 \* the clock of that run
    page_store,           \* the ADLS file system: path -> payload
    page_reqs,            \* history: page numbers requested, in order
    page_writes           \* history: page numbers committed, in order

mainVars ==
    <<rows, dry_run, local_only, sam_key, robots_txt, adls_writer, pc, i,
      now, domain_last_request, domain_crawl_delay, remote, local, outdir, rp, resp,
      artifact, todo, handler, after, reqs, writes, overwritten, faults>>

pageVars ==
    <<api_pages, api_bad_page, api_bad_status, ppc, page, pnow, page_store,
      page_reqs, page_writes>>

vars == <<mainVars, pageVars>>

(***************************************************************************)
(* Helpers of main.                                                        *)
(***************************************************************************)
row == rows[i]
source_name == row.source_name
url == row.url

\* lines 231 and 244: the row names USAspending and carries a recipient id
UsaspendingShortcut(r) ==
    /\ r.api_endpoint = "usaspending" \/ r.url.domain = "www.usaspending.gov"
    /\ r.api_keys \cap {"recipient_id", "recipient_unique_id"} # {}

\* lines 276-278: the row names SAM.gov and SAM_API_KEY is set
SamShortcut(r) ==
    /\ r.url.domain = "sam.gov" \/ (r.api_endpoint = "sam" /\ sam_key)
    /\ sam_key

\* Where a row goes from the top of the loop body ("top"), from the end of the
\* USAspending block ("after_usa") and from the end of the SAM block ("after_sam").
NextStage(r, from) ==
    LET generic == IF r.url = NoUrl THEN "continue" ELSE "generic"
        sam == IF SamShortcut(r)
               THEN (IF dry_run THEN "continue" ELSE "sam_get")
               ELSE generic
        usa == IF UsaspendingShortcut(r)
               THEN (IF dry_run THEN "continue" ELSE "usa_get")
               ELSE sam
    IN  CASE from = "top" -> usa
          [] from = "after_usa" -> sam
          [] from = "after_sam" -> generic

GotoStepsBack(stage) ==
    IF stage = "continue"
    THEN pc' = "row" /\ i' = (IF i = 2 THEN 1 ELSE i + 1)
    ELSE pc' = stage /\ i' = i

\* "continue" is the loop's continue; any other stage is a place in the same row
Goto(stage) ==
    IF stage = "continue"
    THEN pc' = "row" /\ i' = i + 1
    ELSE pc' = stage /\ i' = i

Put(store, path, data) ==
    [p \in DOMAIN store \cup {path} |-> IF p = path THEN data ELSE store[p]]

Lookup(dict, key, default) == IF key \in DOMAIN dict THEN dict[key] ELSE default

FileName(base, t, ext, sidecar) ==
    [base |-> base, ts |-> t, ext |-> ext, sidecar |-> sidecar]

Sidecar(name) == [name EXCEPT !.sidecar = TRUE]

ContentData(content) ==
    [kind |-> "content", content |-> content, checksum_sha256 |-> None,
     skipped_by_robots |-> FALSE, http_status |-> 0, row |-> i]

MetaData(status, checksum, skipped) ==
    [kind |-> "metadata", content |-> "", checksum_sha256 |-> checksum,
     skipped_by_robots |-> skipped, http_status |-> status, row |-> i]

\* The writes of one commit on one backend, in the order the code issues them
PlanOn(backend, files) ==
    [k \in 1..Len(files) |->
       [backend |-> backend, path |-> files[k].path, data |-> files[k].data]]

BackendGivesUpAfterFailure ==
    IF adls_writer /\ \A w \in 1..Len(writes) : writes[w].ok THEN "remote" ELSE "local"

\* lines 261, 303, 335, 392: "if adls_writer" at every commit
Backend == IF adls_writer THEN "remote" ELSE "local"

\* wait_for_domain: the seconds to sleep before a request to the domain
SleepFor(domain, jitter) ==
    LET last == Lookup(domain_last_request, domain, 0)
        delay == Lookup(domain_crawl_delay, domain, DEFAULT_CRAWL_DELAY)
        elapsed == now - last
    IN  IF last # 0 /\ elapsed < delay THEN delay - elapsed + jitter ELSE 0

\* record_domain_request: the crawl delay the parser declares, if any
DeclaredDelay(parser) ==
    IF IsSome(parser)
    THEN (IF IsSome(Val(parser).cd_agent) THEN Val(parser).cd_agent
          ELSE Val(parser).cd_star)
    ELSE None

record_domain_request(domain, parser, t) ==
    /\ domain_crawl_delay' =
         IF IsSome(DeclaredDelay(parser))
         THEN Put(domain_crawl_delay, domain, Val(DeclaredDelay(parser)))
         ELSE domain_crawl_delay
    /\ domain_last_request' = Put(domain_last_request, domain, t)

Request(kind, via, domain, start, end, delay, outcome, r) ==
    [kind |-> kind, via |-> via, domain |-> domain, row |-> i, start |-> start,
     end |-> end, delay |-> delay, outcome |-> outcome,
     status_code |-> r.status_code, retry_after |-> r.retry_after]

UsedDomains(m) == {m[k].url.domain : k \in 1..Len(m)}

(***************************************************************************)
(* Initial states: a manifest, the flags and the environment, the world.   *)
(***************************************************************************)
MainInit ==
    /\ rows \in Manifests
    /\ dry_run \in BOOLEAN
    /\ local_only \in BOOLEAN
    /\ sam_key \in BOOLEAN
    \* SAM_API_KEY is read only for a row that names SAM
    /\ (\A k \in 1..Len(rows) : rows[k].api_endpoint # "sam") => sam_key
    /\ robots_txt \in [SiteDomains -> RobotsFiles]
    /\ \A d \in SiteDomains \ UsedDomains(rows) : robots_txt[d] = RobotsAllowAll
    /\ adls_writer = FALSE
    /\ pc = "init"
    /\ i = 1
    /\ now = StartTime
    /\ domain_last_request = <<>>
    /\ domain_crawl_delay = <<>>
    /\ remote = <<>>
    /\ local = <<>>
    /\ outdir = build_output_paths(<<>>, StartTime)
    /\ rp = None
    /\ resp = NoResponse
    /\ artifact = <<>>
    /\ todo = <<>>
    /\ handler = "none"
    /\ after = "continue"
    /\ reqs = <<>>
    /\ writes = <<>>
    /\ overwritten = {}
    /\ faults = 0


(***************************************************************************)
(* main, lines 205-212: the backend is chosen once.  adls_env is whether   *)
(* ADLS_ACCOUNT, ADLS_FILESYSTEM and the Azure SDK are all there; the      *)
(* ADLSWriter constructor may raise, and then the run writes locally.      *)
(***************************************************************************)
NewAdlsWriterIgnoringFlag(adls_env, constructed) == adls_env /\ constructed

\* lines 205-212: whether main ends up with an ADLSWriter
NewAdlsWriter(adls_env, constructed) == adls_env /\ ~local_only /\ constructed

SelectBackend ==
    /\ pc = "init"
    /\ \E adls_env \in BOOLEAN, constructed \in BOOLEAN :
         adls_writer' = NewAdlsWriter(adls_env, constructed)
    /\ pc' = "row"
    /\ UNCHANGED pageVars
    /\ UNCHANGED <<rows, dry_run, local_only, sam_key, robots_txt, i, now,
                   domain_last_request, domain_crawl_delay, remote, local, outdir, rp,
                   resp, artifact, todo, handler, after, reqs, writes, overwritten,
                   faults>>

\* line 416: the loop is over
Finish ==
    /\ pc = "row"
    /\ i > Len(rows)
    /\ pc' = "done"
    /\ UNCHANGED pageVars
    /\ UNCHANGED <<rows, dry_run, local_only, sam_key, robots_txt,
                   adls_writer, i, now, domain_last_request, domain_crawl_delay,
                   remote, local, outdir, rp, resp, artifact, todo, handler, after,
                   reqs, writes, overwritten, faults>>

\* lines 214-250, 276-292, 318-320: the row's locals and its strategy
BeginRow ==
    /\ pc = "row"
    /\ i <= Len(rows)
    /\ outdir' = build_output_paths(source_name, now)
    /\ Goto(NextStage(row, "top"))
    /\ rp' = None
    /\ resp' = NoResponse
    /\ artifact' = <<>>
    /\ todo' = <<>>
    /\ handler' = "none"
    /\ after' = "continue"
    /\ UNCHANGED pageVars
    /\ UNCHANGED <<rows, dry_run, local_only, sam_key, robots_txt,
                   adls_writer, now, domain_last_request, domain_crawl_delay, remote,
                   local, reqs, writes, overwritten, faults>>

\* The two files of a content commit: the content and its sidecar
ContentArtifact(name, r, checksum) ==
    <<[path |-> [dir |-> outdir, name |-> name], data |-> ContentData(r.content)],
      [path |-> [dir |-> outdir, name |-> Sidecar(name)],
       data |-> MetaData(r.status_code, checksum, FALSE)]>>

(***************************************************************************)
(* The API shortcuts, lines 251-273 and 293-315: SESSION.get without       *)
(* robots check, wait or record; any exception falls through to the next   *)
(* block of the loop body.                                                 *)
(***************************************************************************)
ApiGet(stage, via, domain, tag, except, from) ==
    /\ pc = stage
    /\ \E d \in 0..MaxDuration :
         /\ now' = now + d
         /\ \/ \E r \in Responses :
                 LET name == FileName(source_name \o <<tag>>, now', ".json", FALSE)
                     files == ContentArtifact(name, r, None)
                 IN  /\ resp' = r
                     /\ artifact' = files
                     /\ todo' = PlanOn(Backend, files)
                     /\ handler' = except
                     /\ after' = "continue"
                     /\ pc' = "write"
                     /\ i' = i
                     /\ reqs' = Append(reqs,
                            Request("content", via, domain, now, now',
                                    Lookup(domain_crawl_delay, domain, DEFAULT_CRAWL_DELAY),
                                    "ok", r))
                     /\ faults' = faults
            \/ /\ faults < MaxFaults
               /\ faults' = faults + 1
               /\ Goto(NextStage(row, from))
               /\ reqs' = Append(reqs,
                      Request("content", via, domain, now, now',
                              Lookup(domain_crawl_delay, domain, DEFAULT_CRAWL_DELAY),
                              "error", NoResponse))
               /\ UNCHANGED <<resp, artifact, todo, handler, after>>
    /\ UNCHANGED pageVars
    /\ UNCHANGED <<rows, dry_run, local_only, sam_key, robots_txt,
                   adls_writer, domain_last_request, domain_crawl_delay, remote, local,
                   outdir, rp, writes, overwritten>>

UsaspendingGet ==
    ApiGet("usa_get", "usaspending", UsaspendingDomain, "_usaspending", "usa_except",
           "after_usa")

SamGet ==
    ApiGet("sam_get", "sam", SamDomain, "_sam", "sam_except", "after_sam")

(***************************************************************************)
(* get_robots_parser_for_domain, lines 112-121: one retrieval of the       *)
(* domain's robots.txt; None when it raises.                               *)
(***************************************************************************)
RobotsRequest(via, domain, ok) ==
    Request("robots", via, domain, now, now,
            Lookup(domain_crawl_delay, domain, DEFAULT_CRAWL_DELAY),
            IF ok THEN "ok" ELSE "error", NoResponse)

get_robots_parser_for_domain(domain, ok) ==
    IF ok THEN Some(robots_txt[domain]) ELSE None

(***************************************************************************)
(* main, lines 322-347: the robots check of the generic path, the          *)
(* metadata-only commit of a skip, then the dry-run test.                  *)
(***************************************************************************)
RobotsSkipRecordStamp(domain) == record_domain_request(domain, None, now)

\* lines 157-159 and 324-342: a robots skip calls neither wait_for_domain nor
\* record_domain_request
RobotsSkipRecord(domain) == UNCHANGED <<domain_last_request, domain_crawl_delay>>

MainRobots ==
    /\ pc = "generic"
    /\ \E ok \in BOOLEAN :
         LET parser == get_robots_parser_for_domain(get_domain(url), ok)
             name == FileName(source_name \o <<"_robots_skip">>, now, ".json", FALSE)
             files == <<[path |-> [dir |-> outdir, name |-> name],
                         data |-> MetaData(0, None, TRUE)]>>
         IN  /\ ok \/ faults < MaxFaults
             /\ faults' = IF ok THEN faults ELSE faults + 1
             /\ reqs' = Append(reqs, RobotsRequest("main", get_domain(url), ok))
             /\ IF ~can_fetch(parser)
                THEN /\ artifact' = files
                     /\ todo' = PlanOn(Backend, files)
                     /\ handler' = "propagate"
                     /\ after' = "continue"
                     /\ pc' = "write"
                     /\ i' = i
                     /\ RobotsSkipRecord(get_domain(url))
                ELSE /\ Goto(IF dry_run THEN "continue" ELSE "pf_robots")
                     /\ UNCHANGED <<artifact, todo, handler, after,
                                    domain_last_request, domain_crawl_delay>>
    /\ UNCHANGED pageVars
    /\ UNCHANGED <<rows, dry_run, local_only, sam_key, robots_txt,
                   adls_writer, now, remote, local, outdir, rp, resp, writes,
                   overwritten>>

(***************************************************************************)
(* polite_fetch, lines 153-159 (and main, 350-352): a second retrieval of  *)
(* robots.txt; a disallow returns skipped_by_robots and main continues.    *)
(***************************************************************************)
PoliteFetchRobots ==
    /\ pc = "pf_robots"
    /\ \E ok \in BOOLEAN :
         LET parser == get_robots_parser_for_domain(get_domain(url), ok)
         IN  /\ ok \/ faults < MaxFaults
             /\ faults' = IF ok THEN faults ELSE faults + 1
             /\ reqs' = Append(reqs, RobotsRequest("polite_fetch", get_domain(url), ok))
             /\ rp' = parser
             /\ IF ~can_fetch(parser)
                THEN Goto("continue") /\ RobotsSkipRecord(get_domain(url))
                ELSE Goto("pf_get")
                     /\ UNCHANGED <<domain_last_request, domain_crawl_delay>>
    /\ UNCHANGED pageVars
    /\ UNCHANGED <<rows, dry_run, local_only, sam_key, robots_txt,
                   adls_writer, now, remote, local, outdir, resp, artifact, todo,
                   handler, after, writes, overwritten>>

(***************************************************************************)
(* polite_fetch, lines 160-170, and main, lines 353-408: the wait, the     *)
(* request, the record of the domain's request on success only, then the   *)
(* commit is prepared (first on ADLS when it is the backend).              *)
(***************************************************************************)
AfterFetchErrorRetry == "pf_get"

\* main, lines 353-355: "error" in resp_info -> continue
AfterFetchError == "continue"

PoliteFetchGet ==
    /\ pc = "pf_get"
    /\ \E jitter \in 0..MaxJitter, d \in 0..MaxDuration :
         LET domain == get_domain(url)
             start == now + SleepFor(domain, jitter)
             delay == Lookup(domain_crawl_delay, domain, DEFAULT_CRAWL_DELAY)
         IN  /\ now' = start + d
             /\ \/ \E r \in Responses :
                     LET basename == Basename(url)
                         ext == ExtFor(r.content_type, basename)
                         name == FileName(<<basename.stem, basename.ext>>, now', ext, FALSE)
                         files == ContentArtifact(name, r, Some(sha256_hex(r.content)))
                     IN  /\ record_domain_request(domain, rp, now')
                         /\ resp' = r
                         /\ artifact' = files
                         /\ todo' = PlanOn(Backend, files)
                         /\ handler' = IF adls_writer THEN "local_fallback" ELSE "propagate"
                         /\ after' = IF r.status_code = 429 THEN "backoff" ELSE "continue"
                         /\ pc' = "write"
                         /\ i' = i
                         /\ reqs' = Append(reqs,
                                Request("content", "generic", domain, start, now', delay,
                                        "ok", r))
                         /\ faults' = faults
                \/ /\ faults < MaxFaults
                   /\ faults' = faults + 1
                   /\ Goto(AfterFetchError)
                   /\ reqs' = Append(reqs,
                          Request("content", "generic", domain, start, now', delay,
                                  "error", NoResponse))
                   /\ UNCHANGED <<domain_last_request, domain_crawl_delay, resp, artifact,
                                  todo, handler, after>>
    /\ UNCHANGED pageVars
    /\ UNCHANGED <<rows, dry_run, local_only, sam_key, robots_txt,
                   adls_writer, remote, local, outdir, rp, writes, overwritten>>

(***************************************************************************)
(* One write of the commit in progress: upload_bytes / upload_text (lines  *)
(* 75-86, overwrite=True) or save_local_bytes / save_local_text (lines     *)
(* 177-190, open for writing).  When it raises, the handler in force       *)
(* decides: the generic ADLS commit falls back to local writes of both     *)
(* files (lines 397-403), an API shortcut falls through to the next block  *)
(* (lines 271-273, 313-315), anything else leaves main.                    *)
(***************************************************************************)
WriteEntry(op, ok) ==
    [backend |-> op.backend, path |-> op.path, kind |-> op.data.kind,
     row |-> op.data.row, ok |-> ok, time |-> now, after_req |-> Len(reqs)]

WriteOk ==
    /\ pc = "write"
    /\ LET op == Head(todo)
           store == IF op.backend = "remote" THEN remote ELSE local
       IN  /\ IF op.backend = "remote"
              THEN remote' = Put(remote, op.path, op.data) /\ local' = local
              ELSE local' = Put(local, op.path, op.data) /\ remote' = remote
           /\ overwritten' =
                IF op.path \in DOMAIN store
                THEN overwritten \cup {[backend |-> op.backend, path |-> op.path]}
                ELSE overwritten
           /\ writes' = Append(writes, WriteEntry(op, TRUE))
           /\ todo' = Tail(todo)
           /\ IF Len(todo) = 1 THEN Goto(after) ELSE pc' = "write" /\ i' = i
    /\ UNCHANGED pageVars
    /\ UNCHANGED <<rows, dry_run, local_only, sam_key, robots_txt,
                   adls_writer, now, domain_last_request, domain_crawl_delay, outdir,
                   rp, resp, artifact, handler, after, reqs, faults>>

WriteRaises ==
    /\ pc = "write"
    /\ faults < MaxFaults
    /\ faults' = faults + 1
    /\ writes' = Append(writes, WriteEntry(Head(todo), FALSE))
    /\ CASE handler = "local_fallback" ->
              /\ todo' = PlanOn("local", artifact)
              /\ handler' = "propagate"
              /\ pc' = "write"
              /\ i' = i
         [] handler = "usa_except" ->
              /\ todo' = <<>>
              /\ handler' = "none"
              /\ Goto(NextStage(row, "after_usa"))
         [] handler = "sam_except" ->
              /\ todo' = <<>>
              /\ handler' = "none"
              /\ Goto(NextStage(row, "after_sam"))
         [] OTHER ->
              /\ todo' = <<>>
              /\ handler' = "none"
              /\ pc' = "aborted"
              /\ i' = i
    /\ UNCHANGED pageVars
    /\ UNCHANGED <<rows, dry_run, local_only, sam_key, robots_txt,
                   adls_writer, now, domain_last_request, domain_crawl_delay, remote,
                   local, outdir, rp, resp, artifact, after, reqs, overwritten>>

(***************************************************************************)
(* main, lines 410-414: after the commit of a 429, int(Retry-After or the  *)
(* default) and a sleep of that plus jitter; int raises ValueError on a    *)
(* header that is no integer, and nothing catches it.                      *)
(***************************************************************************)
Backoff ==
    /\ pc = "backoff"
    /\ LET header == resp.retry_after
       IN  IF IsSome(header) /\ ~IsIntString(Val(header))
           THEN /\ pc' = "aborted"
                /\ i' = i
                /\ now' = now
           ELSE \E jitter \in 0..MaxJitter :
                  /\ now' = now + jitter +
                       (IF IsSome(header) THEN IntOfDigits(Val(header))
                        ELSE DEFAULT_CRAWL_DELAY)
                  /\ Goto("continue")
    /\ UNCHANGED pageVars
    /\ UNCHANGED <<rows, dry_run, local_only, sam_key, robots_txt,
                   adls_writer, domain_last_request, domain_crawl_delay, remote, local,
                   outdir, rp, resp, artifact, todo, handler, after, reqs, writes,
                   overwritten, faults>>

MainNext ==
    \/ SelectBackend
    \/ BeginRow
    \/ UsaspendingGet
    \/ SamGet
    \/ MainRobots
    \/ PoliteFetchRobots
    \/ PoliteFetchGet
    \/ WriteOk
    \/ WriteRaises
    \/ Backoff
    \/ Finish

(***************************************************************************)
(* usaspending_fetch.fetch_usaspending_for_recipient, lines 43-71.  The    *)
(* API is a stub: pages 1..api_pages hold results and every later page is  *)
(* empty, all with status 200, except that page api_bad_page (when not 0)  *)
(* is answered with api_bad_status.                                        *)
(***************************************************************************)
BadStatuses == {204, 500}

StubStatus(p) == IF p = api_bad_page THEN api_bad_status ELSE 200

StubPayload(p) == [results |-> IF p <= api_pages THEN <<"award">> ELSE <<>>]

\* line 61: usaspending_<recipient_id>_page<page>_<ts>.json under anduril/USAspending
PageFile(p, t) == [dir |-> "anduril/USAspending/rid", page |-> p, ts |-> t]

\* line 55: if r.status_code != 200: break
IsSuccess(status_code) == status_code = 200

NextPageMutant(p) == p + 2

\* line 69
NextPage(p) == p + 1

PagesInit ==
    /\ api_pages \in 0..MaxPages
    /\ api_bad_page \in 0..(MaxPages + 1)
    /\ api_bad_status \in BadStatuses \cup {200}
    /\ (api_bad_page = 0) <=> (api_bad_status = 200)
    /\ ppc = "get"
    /\ page = 1
    /\ pnow = StartTime
    /\ page_store = <<>>
    /\ page_reqs = <<>>
    /\ page_writes = <<>>

\* lines 53-58: the request of the current page; a status other than 200 ends the loop
PageGet ==
    /\ ppc = "get"
    /\ \E d \in 0..MaxDuration : pnow' = pnow + d
    /\ page_reqs' = Append(page_reqs, page)
    /\ ppc' = IF ~IsSuccess(StubStatus(page)) THEN "done" ELSE "write"
    /\ UNCHANGED <<api_pages, api_bad_page, api_bad_status, page, page_store,
                   page_writes>>
    /\ UNCHANGED mainVars

\* line 54: session.get raises and nothing catches it
PageGetRaises ==
    /\ ppc = "get"
    /\ page_reqs' = Append(page_reqs, page)
    /\ ppc' = "raised"
    /\ UNCHANGED <<api_pages, api_bad_page, api_bad_status, page, pnow, page_store,
                   page_writes>>
    /\ UNCHANGED mainVars

\* lines 60-70: the page is written, then an empty result list ends the loop,
\* else the next page is due after a sleep of 0.2 s
PageWrite ==
    /\ ppc = "write"
    /\ page_store' = Put(page_store, PageFile(page, pnow), StubPayload(page))
    /\ page_writes' = Append(page_writes, page)
    /\ IF StubPayload(page).results = <<>>
       THEN /\ ppc' = "done"
            /\ page' = page
            /\ pnow' = pnow
       ELSE /\ ppc' = "get"
            /\ page' = NextPage(page)
            /\ \E tick \in 0..1 : pnow' = pnow + tick
    /\ UNCHANGED <<api_pages, api_bad_page, api_bad_status, page_reqs>>
    /\ UNCHANGED mainVars

\* line 62: write_json_to_adls raises and nothing catches it
PageWriteRaises ==
    /\ ppc = "write"
    /\ ppc' = "raised"
    /\ UNCHANGED <<api_pages, api_bad_page, api_bad_status, page, pnow, page_store,
                   page_reqs, page_writes>>
    /\ UNCHANGED mainVars

PagesNext ==
    \/ PageGet
    \/ PageGetRaises
    \/ PageWrite
    \/ PageWriteRaises

(***************************************************************************)
(* Two systems: main with the paginated run idle, and the paginated run    *)
(* with main idle.                                                         *)
(***************************************************************************)
PagesIdle ==
    /\ api_pages = 0
    /\ api_bad_page = 0
    /\ api_bad_status = 200
    /\ ppc = "idle"
    /\ page = 1
    /\ pnow = StartTime
    /\ page_store = <<>>
    /\ page_reqs = <<>>
    /\ page_writes = <<>>

MainIdle ==
    /\ rows = <<>>
    /\ dry_run = FALSE
    /\ local_only = FALSE
    /\ sam_key = FALSE
    /\ robots_txt = [d \in SiteDomains |-> RobotsAllowAll]
    /\ adls_writer = FALSE
    /\ pc = "idle"
    /\ i = 1
    /\ now = StartTime
    /\ domain_last_request = <<>>
    /\ domain_crawl_delay = <<>>
    /\ remote = <<>>
    /\ local = <<>>
    /\ outdir = build_output_paths(<<>>, StartTime)
    /\ rp = None
    /\ resp = NoResponse
    /\ artifact = <<>>
    /\ todo = <<>>
    /\ handler = "none"
    /\ after = "continue"
    /\ reqs = <<>>
    /\ writes = <<>>
    /\ overwritten = {}
    /\ faults = 0

Init == MainInit /\ PagesIdle

Next == MainNext

Spec == Init /\ [][Next]_vars

(***************************************************************************)
(* The process may be killed between any two steps of main (a signal, a    *)
(* KeyboardInterrupt): it stops where it is and the stores keep what the   *)
(* writes so far put there.                                                *)
(***************************************************************************)
Interrupt ==
    /\ pc \notin {"idle", "done", "aborted", "interrupted"}
    /\ pc' = "interrupted"
    /\ UNCHANGED pageVars
    /\ UNCHANGED <<rows, dry_run, local_only, sam_key, robots_txt,
                   adls_writer, i, now, domain_last_request, domain_crawl_delay,
                   remote, local, outdir, rp, resp, artifact, todo, handler, after,
                   reqs, writes, overwritten, faults>>

NextInterruptible == MainNext \/ Interrupt

SpecInterruptible == Init /\ [][NextInterruptible]_vars

InitPages == PagesInit /\ MainIdle

\* The loop is sequential code: it takes its next step whenever it has one
SpecPages == InitPages /\ [][PagesNext]_vars /\ WF_vars(PagesNext)


(***************************************************************************)
(* Properties.                                                             *)
(***************************************************************************)
ContentRequests == {k \in 1..Len(reqs) : reqs[k].kind = "content"}

\* Row k has been left: the loop is past it, or the run has ended
RowOver(k) == k < i \/ pc \in {"done", "aborted"}

BetweenRows == pc \in {"row", "done", "aborted"}

Stores == {"remote", "local"}
StoreOf(backend) == IF backend = "remote" THEN remote ELSE local

FilesOfRow(k, kind) ==
    {f \in [backend : Stores, path : DOMAIN remote \cup DOMAIN local] :
        /\ f.path \in DOMAIN StoreOf(f.backend)
        /\ StoreOf(f.backend)[f.path].row = k
        /\ StoreOf(f.backend)[f.path].kind = kind}

\* C1: for every domain, any two actual fetch attempts to it (successful or
\* failed in transport; robots retrievals and skips excluded) start at least
\* the domain's effective delay apart: the robots-declared crawl delay when
\* one was obtained, DEFAULT_CRAWL_DELAY otherwise.
C1_RequestsSpacedByDelay ==
    \A j \in ContentRequests, k \in ContentRequests :
        (j < k /\ reqs[j].domain = reqs[k].domain)
            => reqs[k].start - reqs[j].start >= reqs[k].delay

\* A robots check of row k reported a disallow: robots.txt was retrieved for
\* the row and forbids the crawler
RobotsDisallowed(k) ==
    \E j \in 1..Len(reqs) :
        /\ reqs[j].kind = "robots"
        /\ reqs[j].row = k
        /\ reqs[j].outcome = "ok"
        /\ ~robots_txt[reqs[j].domain].allow

\* C2: a generic-path row skipped because robots.txt disallows its URL, by
\* main's check or by polite_fetch's, ends with exactly one metadata-only
\* artifact with skipped_by_robots = true, no content artifact and no
\* request to its URL.
C2_RobotsSkipLeavesOneMetadata ==
    \A k \in 1..Len(rows) :
        (k < i /\ RobotsDisallowed(k)) =>
            /\ Cardinality({f \in FilesOfRow(k, "metadata") :
                    StoreOf(f.backend)[f.path].skipped_by_robots}) = 1
            /\ FilesOfRow(k, "content") = {}
            /\ \A j \in ContentRequests :
                   ~(reqs[j].row = k /\ reqs[j].via = "generic")

\* C3: once the processing of a row is over, every content artifact in
\* either backend has its sidecar <name>.metadata.json in the same backend
\* and directory, and a checksum_sha256 in it is the SHA-256 of the stored
\* content.
C3_ContentHasSidecar ==
    BetweenRows =>
        \A b \in Stores : \A p \in DOMAIN StoreOf(b) :
            StoreOf(b)[p].kind = "content" =>
                LET side == [dir |-> p.dir, name |-> Sidecar(p.name)]
                IN  /\ side \in DOMAIN StoreOf(b)
                    /\ StoreOf(b)[side].kind = "metadata"
                    /\ IsSome(StoreOf(b)[side].checksum_sha256) =>
                         Val(StoreOf(b)[side].checksum_sha256)
                             = sha256_hex(StoreOf(b)[p].content)

\* The files of the artifact a path belongs to: a content file and its
\* sidecar, or a metadata-only file alone
ArtifactPaths(p, kind) ==
    IF kind = "metadata" /\ ~p.name.sidecar
    THEN {p}
    ELSE {[dir |-> p.dir, name |-> [p.name EXCEPT !.sidecar = FALSE]],
          [dir |-> p.dir, name |-> [p.name EXCEPT !.sidecar = TRUE]]}

\* C4: whenever a write to the remote backend raises, for whatever commit
\* (generic, robots skip, USAspending, SAM.gov), the artifact is written to
\* the local backend instead and no exception leaves the write step.
C4_RemoteFailureFallsBackToLocal ==
    \A k \in 1..Len(writes) :
        (writes[k].backend = "remote" /\ ~writes[k].ok /\ RowOver(writes[k].row))
            => /\ pc # "aborted"
               /\ ArtifactPaths(writes[k].path, writes[k].kind) \subseteq DOMAIN local

\* C5: no failure of a row ends main: the run never leaves the loop by an
\* exception, whatever fails (transport, robots, storage, a 429 with any
\* Retry-After header).
C5_RunNeverAborts == pc # "aborted"

\* C6: with dry_run the run makes no network request, robots.txt included,
\* and no storage write, robots-skip metadata included.
C6_DryRunTouchesNothing ==
    dry_run => reqs = <<>> /\ writes = <<>> /\ DOMAIN remote = {} /\ DOMAIN local = {}


(***************************************************************************)
(* The paginated loop.                                                     *)
(***************************************************************************)
\* The API behaves as the stub of N non-empty pages and then an empty one
StubOnly == ppc # "idle" /\ api_bad_page = 0

PagesStopped == ppc \in {"done", "raised"}

UpTo(n) == [k \in 1..n |-> k]

\* C7, as the specification states it: given N non-empty pages (status 200)
\* followed by an empty page, the loop has committed exactly N artifacts
\* when it stops.
C7_CommitsExactlyN ==
    (StubOnly /\ ppc = "done") => Len(page_writes) = api_pages

C7_PagesCommitted ==
    StubOnly =>
        /\ page <= api_pages + 1
        /\ ppc = "done" =>
             /\ page_writes = UpTo(api_pages + 1)
             /\ Cardinality(DOMAIN page_store) = api_pages + 1
             /\ \A f \in DOMAIN page_store :
                    (page_store[f].results = <<>>) <=> (f.page = api_pages + 1)
        /\ ppc = "raised" => Len(page_writes) <= api_pages

\* C7, amended: given N non-empty pages (status 200) followed by an empty
\* page, the loop terminates; when it ends by its stop condition it has
\* committed exactly N + 1 artifacts, pages 1..N+1 in order, the last one
\* being the empty page; a request or write that raises ends it with at
\* most N.
C7_TerminatesWithNPlusOne == [](C7_PagesCommitted) /\ <>(PagesStopped)

C7_Witness ==
    /\ StubOnly
    /\ ppc = "done"
    /\ api_pages >= 2
    /\ Len(page_writes) = api_pages + 1

(***************************************************************************)
(* main, continued.                                                        *)
(***************************************************************************)
\* C8: no write replaces an artifact committed earlier: any two commits go
\* to distinct paths, also within one UTC second with the same source name
\* and basename.
C8_NoOverwrite == overwritten = {}

FailedRobots(j) == reqs[j].kind = "robots" /\ reqs[j].outcome = "error"

SkipWrites(k) ==
    {w \in 1..Len(writes) :
        /\ writes[w].row = k
        /\ writes[w].kind = "metadata"
        /\ ~writes[w].path.name.sidecar}

\* C9: when robots.txt of a domain cannot be retrieved, the URL is treated
\* as fetchable: the failed check, in main or in polite_fetch, never causes
\* a skip.  After main's failed check no skip metadata is written for the
\* row and, unless dry_run ends the row there, the row goes on to
\* polite_fetch; after polite_fetch's failed check the request is made.
C9_FailedRobotsIsPermissive ==
    \A j \in 1..Len(reqs) :
        FailedRobots(j) =>
            /\ reqs[j].via = "main" =>
                 /\ SkipWrites(reqs[j].row) = {}
                 /\ ~dry_run =>
                      IF j = Len(reqs)
                      THEN pc = "pf_robots" /\ i = reqs[j].row
                      ELSE /\ reqs[j + 1].kind = "robots"
                           /\ reqs[j + 1].via = "polite_fetch"
                           /\ reqs[j + 1].row = reqs[j].row
            /\ reqs[j].via = "polite_fetch" =>
                 IF j = Len(reqs)
                 THEN pc = "pf_get" /\ i = reqs[j].row
                 ELSE /\ reqs[j + 1].kind = "content"
                      /\ reqs[j + 1].via = "generic"
                      /\ reqs[j + 1].row = reqs[j].row

\* The retrieval failed for a domain whose robots.txt forbids the crawler,
\* and the row has gone on to polite_fetch
C9_Witness ==
    /\ Len(reqs) > 0
    /\ FailedRobots(Len(reqs))
    /\ reqs[Len(reqs)].via = "main"
    /\ ~robots_txt[reqs[Len(reqs)].domain].allow
    /\ pc = "pf_robots"

\* The seconds a 429 asks for: its Retry-After, the default without the header
AskedBackoff(r) ==
    IF IsSome(r.retry_after) THEN IntOfDigits(Val(r.retry_after))
    ELSE DEFAULT_CRAWL_DELAY

\* C10: after a fetch answered 429 with Retry-After = k (or without the
\* header: the default), by whatever strategy, the next outbound request of
\* the run, to any domain, starts at least k later.
C10_BackoffAfter429 ==
    \A j \in 1..Len(reqs) :
        (/\ j < Len(reqs)
         /\ reqs[j].kind = "content"
         /\ reqs[j].status_code = 429
         /\ IsSome(reqs[j].retry_after) => IsIntString(Val(reqs[j].retry_after)))
            => reqs[j + 1].start >= reqs[j].end + AskedBackoff(reqs[j])


RobotsRequests(d) ==
    {k \in 1..Len(reqs) : reqs[k].kind = "robots" /\ reqs[k].domain = d}

\* C11: within one run, robots.txt of any given domain is retrieved at most
\* once; every later robots decision about the domain reuses the first
\* lookup's result, the permissive default after a failed lookup included.
C11_RobotsRetrievedOncePerDomain ==
    \A d \in SiteDomains : Cardinality(RobotsRequests(d)) <= 1

\* A response was fetched for row k
Fetched(k) ==
    \E j \in ContentRequests : reqs[j].row = k /\ reqs[j].outcome = "ok"

\* C12: the content bytes fetched for a manifest row are committed at most
\* once in the whole store: never to both the remote and the local backend,
\* never as two content artifacts of the same row, also when a remote write
\* fails between the content and its metadata.
C12_ContentCommittedOnce ==
    \A k \in 1..Len(rows) :
        Fetched(k) => Cardinality(FilesOfRow(k, "content")) <= 1

\* C13: every content request of a structured strategy (the USAspending and
\* SAM.gov shortcuts) comes right after a robots check of its domain for the
\* same row, and is followed by the record of the domain's last-request
\* time, as on the generic path.
C13_StructuredRequestsArePolite ==
    \A j \in ContentRequests :
        reqs[j].via \in {"usaspending", "sam"} =>
            /\ j > 1
            /\ reqs[j - 1].kind = "robots"
            /\ reqs[j - 1].domain = reqs[j].domain
            /\ reqs[j - 1].row = reqs[j].row
            /\ reqs[j].outcome = "ok" =>
                 Lookup(domain_last_request, reqs[j].domain, 0) >= reqs[j].end


\* C14: when main runs with local_only, no write is ever issued to the
\* remote (ADLS) backend, whatever the environment holds; every artifact
\* goes to the local backend.
C14_LocalOnlyNeverWritesRemote ==
    local_only =>
        /\ ~adls_writer
        /\ DOMAIN remote = {}
        /\ \A w \in 1..Len(writes) : writes[w].backend = "local"

\* A local_only run is over and has committed a content artifact locally
C14_Witness ==
    /\ local_only
    /\ pc = "done"
    /\ \E w \in 1..Len(writes) : writes[w].kind = "content" /\ writes[w].ok
    /\ FilesOfRow(1, "content") # {}

\* C15: every network attempt of polite_fetch to a domain, answered or
\* failed in transport, stamps the domain's last-request time with the time
\* of the attempt before the next request is scheduled.
C15_EveryAttemptIsRecorded ==
    \A j \in ContentRequests :
        reqs[j].via = "generic" =>
            Lookup(domain_last_request, reqs[j].domain, 0) >= reqs[j].end

LimiterState == <<domain_last_request, domain_crawl_delay>>

\* This step makes a request of the given kind
RequestStep(kind) ==
    /\ Len(reqs') = Len(reqs) + 1
    /\ reqs'[Len(reqs')].kind = kind

\* This step is a robots check that reports a disallow: the URL is skipped
SkipStep ==
    /\ RequestStep("robots")
    /\ reqs'[Len(reqs')].outcome = "ok"
    /\ ~robots_txt[reqs'[Len(reqs')].domain].allow

\* C16: a robots skip leaves the rate limiter as it was (last-request times
\* and stored crawl delays of every domain), and no step other than an
\* actual network attempt writes a last-request time.
C16_SkipLeavesLimiter ==
    [][/\ SkipStep => LimiterState' = LimiterState
       /\ LimiterState' # LimiterState => RequestStep("content")]_vars

\* A URL has just been skipped in a run whose limiter holds an earlier request
C16_Witness ==
    /\ Len(reqs) > 0
    /\ reqs[Len(reqs)].kind = "robots"
    /\ reqs[Len(reqs)].outcome = "ok"
    /\ ~robots_txt[reqs[Len(reqs)].domain].allow
    /\ DOMAIN domain_last_request # {}
    /\ pc = "write"

FailedFetch(j) ==
    reqs[j].kind = "content" /\ reqs[j].via = "generic" /\ reqs[j].outcome = "error"

\* C17: when the generic fetch of a row fails with a transport error, no
\* write (content or metadata) is issued for the row from then on, no
\* further request is made for the row, and the loop is at a later row.
C17_TransportErrorMovesOn ==
    \A j \in 1..Len(reqs) :
        FailedFetch(j) =>
            /\ \A w \in 1..Len(writes) :
                   writes[w].row = reqs[j].row => writes[w].after_req < j
            /\ \A k \in 1..Len(reqs) : k > j => reqs[k].row > reqs[j].row
            /\ i > reqs[j].row

\* The fetch of row 1 failed and the run went on to commit row 2
C17_Witness ==
    /\ pc = "done"
    /\ Len(rows) = 2
    /\ \E j \in 1..Len(reqs) : FailedFetch(j) /\ reqs[j].row = 1
    /\ \E w \in 1..Len(writes) : writes[w].row = 2 /\ writes[w].ok


\* C18: if the process is interrupted at any point of a run, the store holds
\* only whole artifacts: what was committed before is there, the artifact in
\* flight is absent altogether, so that no content file is in a backend
\* without its metadata sidecar.
C18_InterruptLeavesWholeArtifacts ==
    pc = "interrupted" =>
        \A b \in Stores : \A p \in DOMAIN StoreOf(b) :
            StoreOf(b)[p].kind = "content" =>
                [dir |-> p.dir, name |-> Sidecar(p.name)] \in DOMAIN StoreOf(b)


\* C19: each manifest row is handled by one strategy: a row whose URL or
\* API-parameter string names a structured API is never fetched through the
\* generic single-document path, also when the helper raises or the
\* recipient id is absent.
C19_OneStrategyPerRow ==
    \A j \in ContentRequests :
        reqs[j].via = "generic" =>
            /\ rows[reqs[j].row].api_endpoint = ""
            /\ rows[reqs[j].row].url.domain \notin {"www.usaspending.gov", "sam.gov"}

(***************************************************************************)
(* The paginated loop, continued.                                          *)
(***************************************************************************)
\* Page k was requested and the request returned a response
Answered(k) ==
    /\ k \in 1..Len(page_reqs)
    /\ k < Len(page_reqs) \/ ppc \in {"write", "done"} \/ Len(page_writes) >= k

\* Pages are requested as 1, 2, 3, ... and committed in that order, a page
\* only after its request
PagesInOrder ==
    /\ page_reqs = UpTo(Len(page_reqs))
    /\ page_writes = UpTo(Len(page_writes))
    /\ Len(page_writes) <= Len(page_reqs)

\* Page k ended the loop: it is the last one requested, the pages before it
\* and no others are committed besides (when it counts as committed) itself
LastPage(k, committed) ==
    /\ Len(page_reqs) = k
    /\ Len(page_writes) = IF committed THEN k ELSE k - 1
    /\ ppc \in {"done", "raised"}

\* The first empty page, once committed, ends the loop
StopsAtEmptyPage ==
    \A k \in 1..Len(page_writes) : k > api_pages => LastPage(k, TRUE)

\* C20, as the specification states it: pages are requested as 1, 2, 3, ...
\* each once, and committed in that order; no request and no commit follows
\* the first non-2xx response, any 2xx response being a success (its page
\* is committed), nor the first page whose result list is empty.
C20_StopsAtNon2xx ==
    /\ PagesInOrder
    /\ StopsAtEmptyPage
    /\ \A k \in 1..Len(page_reqs) :
           Answered(k) =>
               IF StubStatus(k) \div 100 = 2
               THEN k <= Len(page_writes) \/ (k = Len(page_reqs) /\ ppc \in {"write", "raised"})
               ELSE LastPage(k, FALSE)


(***************************************************************************)
(* main, continued.                                                        *)
(***************************************************************************)
\* Write w is a local write of a run that has an ADLS writer
LocalUnderAdls(w) == adls_writer /\ writes[w].backend = "local"

\* An earlier remote write of the same artifact raised
FallbackOf(w) ==
    \E v \in 1..(w - 1) :
        /\ writes[v].backend = "remote"
        /\ ~writes[v].ok
        /\ writes[v].row = writes[w].row
        /\ writes[v].path \in ArtifactPaths(writes[w].path, writes[w].kind)

\* C21: the backend chosen at startup never changes during the run: after
\* the choice adls_writer keeps its value, and in a run with an ADLS writer
\* an artifact is written locally only as the fallback of its own failed
\* remote write, never because an earlier artifact fell back; every other
\* artifact is attempted on the remote backend.
C21_BackendNeverChanges ==
    /\ [](\A w \in 1..Len(writes) : LocalUnderAdls(w) => FallbackOf(w))
    /\ [](\A w \in 1..Len(writes) : ~adls_writer => writes[w].backend = "local")
    /\ [][pc # "init" => adls_writer' = adls_writer]_vars

\* Row 1 fell back to the local backend and row 2 was then written remotely
C21_Witness ==
    /\ adls_writer
    /\ pc = "done"
    /\ \E w \in 1..Len(writes) :
           writes[w].row = 1 /\ writes[w].backend = "local" /\ writes[w].ok
    /\ \E w \in 1..Len(writes) :
           writes[w].row = 2 /\ writes[w].backend = "remote" /\ writes[w].ok


\* The crawl delay a robots file declares for the crawler: the one of its
\* user agent, else the one of the wildcard agent, else none
ExpectedDelay(f) == IF f.cd_agent # None THEN f.cd_agent ELSE f.cd_star

\* The requests to domain d before request j that polite_fetch recorded
Recorded(d, j) ==
    {k \in 1..(j - 1) :
        /\ reqs[k].kind = "content"
        /\ reqs[k].via = "generic"
        /\ reqs[k].domain = d
        /\ reqs[k].outcome = "ok"}

\* The robots policy of domain d as the run resolved it: the file when the
\* first lookup of the domain retrieved it, the permissive default (no
\* declared delay) when that lookup failed
FirstLookup(d) ==
    CHOOSE k \in RobotsRequests(d) : \A m \in RobotsRequests(d) : k <= m

ResolvedPolicy(d) ==
    IF reqs[FirstLookup(d)].outcome = "ok" THEN robots_txt[d] ELSE RobotsAllowAll

\* The delay a policy asks for: the declared one, else the default
EffectiveDelay(f) ==
    IF ExpectedDelay(f) # None THEN Val(ExpectedDelay(f)) ELSE DEFAULT_CRAWL_DELAY

\* C22: the delay wait_for_domain enforces for a domain (before a request
\* that follows a recorded one) is the crawl delay the domain's robots
\* policy declares for the crawler's user agent, else the one it declares
\* for the wildcard agent, else the default, the policy being the one the
\* run resolved for the domain or the robots file itself; a delay once
\* recorded for a domain is the declared one and stays.
C22_DelayIsDeclaredElseDefault ==
    /\ \A j \in ContentRequests :
           (reqs[j].via = "generic" /\ Recorded(reqs[j].domain, j) # {}) =>
               reqs[j].delay \in {EffectiveDelay(ResolvedPolicy(reqs[j].domain)),
                                  EffectiveDelay(robots_txt[reqs[j].domain])}
    /\ \A d \in DOMAIN domain_crawl_delay :
           domain_crawl_delay[d] = Val(ExpectedDelay(robots_txt[d]))

\* C23: artifacts are committed in manifest row order: of any two writes,
\* the earlier one is for the same or an earlier row, so every write for
\* row i comes before any write for a row j > i; and the UTC timestamps in
\* the file names are non-decreasing in commit order.
C23_CommitsInRowOrder ==
    \A v \in 1..Len(writes), w \in 1..Len(writes) :
        v < w =>
            /\ writes[v].row <= writes[w].row
            /\ writes[v].path.name.ts <= writes[w].path.name.ts

\* Both rows of a manifest were committed, the second one in a later second
C23_Witness ==
    /\ pc = "done"
    /\ \E v \in 1..Len(writes), w \in 1..Len(writes) :
           /\ v < w
           /\ writes[v].row = 1 /\ writes[v].ok
           /\ writes[w].row = 2 /\ writes[w].ok
           /\ writes[v].path.name.ts < writes[w].path.name.ts

=============================================================================
